---- MODULE Spec2Model ----
(***************************************************************************)
(* Model of the GSC MCP gateway (src/main.py): the JSON-RPC dispatcher     *)
(* behind POST /sse, the legacy POST /mcp handler, the read-only GET       *)
(* endpoints and the SSE session generator behind GET /sse.                *)
(*                                                                         *)
(* Encoding of Python values.  Scalars (str or None) are TLA+ strings,     *)
(* with Absent for "key not in the dict" and NoneS for None.  Objects are  *)
(* records; a dict whose shape matters carries a "kind" field ("absent",   *)
(* "null" or "dict").  A formatted message (an f-string, str(e)) is the    *)
(* sequence of its pieces, so that "the message contains X" is a test on   *)
(* the pieces.  json.dumps(x) is the tagged value [json |-> x].            *)
(***************************************************************************)
EXTENDS Integers, Sequences, FiniteSets, TLC

VARIABLES
    gsc_service,         \* module global: "service" or NoneS          (main.py:38-43)
    gsc_error,           \* module global: str(e) of the startup failure, or NoneS (main.py:39,46)
    tools,               \* mcp_server.tools                              (main.py:54-100)
    active_connections,  \* module global dict: connection id -> True    (main.py:50)
    pc,                  \* per GET /sse request: where its generator is suspended
    connection_id,       \* per GET /sse request: the local connection_id
    disconnected,        \* per GET /sse request: has the peer gone away
    frames,              \* per GET /sse request: the frames yielded so far
    checks,              \* per GET /sse request: the disconnect checks made so far
    lastRequest,         \* the request handled last
    lastResponse,        \* the response returned for it
    lastCalls            \* the external API calls made while handling it

vars == <<gsc_service, gsc_error, tools, active_connections, pc, connection_id,
          disconnected, frames, checks, lastRequest, lastResponse, lastCalls>>

sseVars == <<active_connections, pc, connection_id, disconnected, frames, checks>>
rpcVars == <<lastRequest, lastResponse, lastCalls>>
cfgVars == <<gsc_service, gsc_error, tools>>

-----------------------------------------------------------------------------
(* Bounds of the model *)

MaxHeartbeats == 1

-----------------------------------------------------------------------------
(* Python values *)

Absent == "<absent>"
NoneS == "<None>"
NoneO == [py |-> "None"]

\* a str held where an object may be held
Str(pieces) == [str |-> pieces]

\* dict.get(key): None when the key is absent
Get(v) == IF v = Absent THEN NoneS ELSE v

\* dict.get(key, default)
GetDefault(v, default) == IF v = Absent THEN default ELSE v

\* variant: "is not None" instead of the truth value
Truthy_not_none(v) == v # NoneS

\* truth value of a str-or-None scalar: None and "" are falsy
Truthy(v) == v # NoneS /\ v # ""

\* json.dumps / json.loads
Dumps(x) == [json |-> x]
Loads(t) == t.json

\* does a formatted message contain the piece p
Contains(msg, p) == \E i \in 1..Len(msg) : msg[i] = p

\* outcome of a Python call: a returned value or a raised exception (message =
\* str(e)), with the external API calls made on the way
Return(v, calls) == [raised |-> FALSE, value |-> v, message |-> <<>>, calls |-> calls]
Raise(msg, calls) == [raised |-> TRUE, value |-> NoneO, message |-> msg, calls |-> calls]

\* str(e) of the AttributeError of calling .get on None
NoneTypeGet == <<"'NoneType' object has no attribute 'get'">>

-----------------------------------------------------------------------------
(* Inputs: the requests a client can send and what the external API answers *)

RequestIds == {Absent, "7"}
Methods == {"initialize", "tools/list", "tools/call", "resources/list"}
ToolNames == {"list_properties", "get_search_analytics", "get_site_details",
              "delete_site"}
LegacyMethods == {"list_properties", "get_search_analytics", "get_site_details",
                  "delete_site"}
SiteUrls == {Absent, "", "https://example.com/"}

ArgsAbsent == [kind |-> "absent", site_url |-> Absent, start_date |-> Absent,
               end_date |-> Absent]
ArgsNull == [kind |-> "null", site_url |-> Absent, start_date |-> Absent,
             end_date |-> Absent]
EmptyArgs == [kind |-> "dict", site_url |-> Absent, start_date |-> Absent,
              end_date |-> Absent]
Arguments ==
    {ArgsAbsent, ArgsNull} \cup
    {[kind |-> "dict", site_url |-> u, start_date |-> Absent, end_date |-> Absent] :
        u \in SiteUrls}

ParamsAbsent == [kind |-> "absent", name |-> Absent, arguments |-> ArgsAbsent]
ParamsNull == [kind |-> "null", name |-> Absent, arguments |-> ArgsAbsent]
EmptyParams == [kind |-> "dict", name |-> Absent, arguments |-> ArgsAbsent]
CallParams ==
    {ParamsAbsent, ParamsNull} \cup
    {[kind |-> "dict", name |-> n, arguments |-> a] : n \in ToolNames, a \in Arguments}

\* the JSON bodies POSTed to /sse: every method and shape of params with an
\* id, and without an id one message for each way a response is produced (the
\* id is read once, at line 202, and only written back)
Messages ==
    {[id |-> "7", method |-> "tools/call", params |-> p] :
        p \in CallParams \ {[kind |-> "dict", name |-> n,
                              arguments |-> EmptyArgs] : n \in ToolNames}}
    \cup
    {[id |-> "7", method |-> m, params |-> p] :
        m \in Methods \ {"tools/call"}, p \in {ParamsAbsent, ParamsNull}}
    \cup
    {[id |-> Absent, method |-> m, params |-> ParamsAbsent] : m \in Methods}
    \cup
    {[id |-> Absent, method |-> "tools/call",
      params |-> [kind |-> "dict", name |-> "list_properties", arguments |-> ArgsAbsent]]}

\* the MCPRequest bodies POSTed to /mcp (main.py:29-31)
MCPRequests ==
    {[method |-> m, params |-> p] :
        m \in LegacyMethods,
        p \in {ArgsNull, EmptyArgs, [EmptyArgs EXCEPT !.site_url = "https://example.com/"]}}

StartupErrors == {"GOOGLE_SERVICE_ACCOUNT_KEY non trovata nelle variabili d'ambiente"}
UpstreamError == "HttpError 403"

Site1 == [siteUrl |-> "https://example.com/"]
Site2 == [siteUrl |-> "sc-domain:example.org"]
Row1 == [keys |-> <<"alpha">>, clicks |-> 1, impressions |-> 10]
Row2 == [keys |-> <<"beta">>, clicks |-> 2, impressions |-> 20]
SiteInfo == [siteUrl |-> "https://example.com/", permissionLevel |-> "siteOwner"]

\* what the Search Console API answers to the one call a request makes
ExternalOutcomes ==
    {[ok |-> FALSE, has |-> FALSE, siteEntry |-> <<>>, rows |-> <<>>]} \cup
    {[ok |-> TRUE, has |-> h, siteEntry |-> e, rows |-> r] :
        h \in BOOLEAN, e \in {<<Site1, Site2>>}, r \in {<<Row1, Row2>>}}

-----------------------------------------------------------------------------
(* The tool catalogue built by MCPServerSSE.__init__ *)

MCPServerSSE_init ==
    << [name |-> "list_properties",
        description |-> "Lista tutte le proprieta Google Search Console disponibili",
        inputSchema |-> [type |-> "object", properties |-> <<>>, required |-> <<>>]],
       [name |-> "get_search_analytics",
        description |-> "Ottieni dati di analisi di ricerca per un sito specifico",
        inputSchema |-> [type |-> "object",
                         properties |-> <<"site_url", "start_date", "end_date">>,
                         required |-> <<"site_url">>]],
       [name |-> "get_site_details",
        description |-> "Ottieni dettagli specifici per un sito in Google Search Console",
        inputSchema |-> [type |-> "object", properties |-> <<"site_url">>,
                         required |-> <<"site_url">>]] >>

-----------------------------------------------------------------------------
(* The external Search Console client; ext is what the API answers *)

ApiCall(op, site, ok) == [op |-> op, siteUrl |-> site, ok |-> ok]

\* gsc_service.sites().list().execute()
sites_list(ext) ==
    IF ext.ok
    THEN Return([has |-> ext.has, siteEntry |-> ext.siteEntry],
                <<ApiCall("sites.list", NoneS, TRUE)>>)
    ELSE Raise(<<UpstreamError>>, <<ApiCall("sites.list", NoneS, FALSE)>>)

\* gsc_service.searchanalytics().query(siteUrl=..., body=...).execute()
searchanalytics_query(site_url, ext) ==
    IF ext.ok
    THEN Return([has |-> ext.has, rows |-> ext.rows],
                <<ApiCall("searchanalytics.query", site_url, TRUE)>>)
    ELSE Raise(<<UpstreamError>>, <<ApiCall("searchanalytics.query", site_url, FALSE)>>)

\* gsc_service.sites().get(siteUrl=...).execute()
sites_get(site_url, ext) ==
    IF ext.ok
    THEN Return(SiteInfo, <<ApiCall("sites.get", site_url, TRUE)>>)
    ELSE Raise(<<UpstreamError>>, <<ApiCall("sites.get", site_url, FALSE)>>)

\* [site['siteUrl'] for site in sites.get('siteEntry', [])]
SiteUrlsOf(sites) ==
    LET entries == IF sites.has THEN sites.siteEntry ELSE <<>>
    IN  [i \in 1..Len(entries) |-> entries[i].siteUrl]

\* response.get('rows', [])
RowsOf(response) == IF response.has THEN response.rows ELSE <<>>

-----------------------------------------------------------------------------
(* MCPServerSSE: the JSON-RPC dispatcher *)

\* variant: the stored startup error is left out of the message
ServiceUnavailable_no_detail == Raise(<<"GSC service non disponibile">>, <<>>)

\* raise Exception(f"GSC service non disponibile: {gsc_error}")
ServiceUnavailable == Raise(<<"GSC service non disponibile: ", gsc_error>>, <<>>)

\* variant: the result key is always written, the error key added to it
create_mcp_message_both(msg_type, id, result, error) ==
    IF error # NoneO
    THEN [jsonrpc |-> "2.0", id |-> id, result |-> result, error |-> error]
    ELSE [jsonrpc |-> "2.0", id |-> id, result |-> result]

create_mcp_message(msg_type, id, result, error) ==
    IF error # NoneO
    THEN [jsonrpc |-> "2.0", id |-> id, error |-> error]
    ELSE [jsonrpc |-> "2.0", id |-> id, result |-> result]

handle_initialize(params) ==
    Return([protocolVersion |-> "2024-11-05",
            capabilities |-> [tools |-> [listChanged |-> FALSE]],
            serverInfo |-> [name |-> "gsc-mcp-server", version |-> "1.0.0"]], <<>>)

\* variant: the first descriptor is dropped
handle_tools_list_tail(params) == Return([tools |-> Tail(tools)], <<>>)

handle_tools_list(params) == Return([tools |-> tools], <<>>)

\* the body of the try block of handle_tools_call, lines 140-193; the result it
\* returns is the tool's result dict, not yet wrapped
tool_body(params, ext) ==
    IF params.kind = "null" THEN Raise(NoneTypeGet, <<>>)
    ELSE
    LET tool_name == Get(params.name)
        arguments == IF params.arguments.kind = "absent" THEN EmptyArgs
                     ELSE params.arguments
    IN
    IF gsc_service = NoneS
    THEN ServiceUnavailable
    ELSE IF tool_name = "list_properties"
    THEN LET sites == sites_list(ext)
         IN  IF sites.raised THEN sites
             ELSE Return([properties |-> SiteUrlsOf(sites.value)], sites.calls)
    ELSE IF tool_name = "get_search_analytics"
    THEN IF arguments.kind = "null" THEN Raise(NoneTypeGet, <<>>)
         ELSE
         LET site_url == Get(arguments.site_url)
             start_date == GetDefault(arguments.start_date, "2024-01-01")
             end_date == GetDefault(arguments.end_date, "2024-12-31")
         IN  IF ~Truthy(site_url) THEN Raise(<<"site_url", " richiesto">>, <<>>)
             ELSE LET response == searchanalytics_query(site_url, ext)
                  IN  IF response.raised THEN response
                      ELSE Return([site_url |-> site_url,
                                   period |-> <<start_date, " to ", end_date>>,
                                   analytics |-> RowsOf(response.value)],
                                  response.calls)
    ELSE IF tool_name = "get_site_details"
    THEN IF arguments.kind = "null" THEN Raise(NoneTypeGet, <<>>)
         ELSE
         LET site_url == Get(arguments.site_url)
         IN  IF ~Truthy(site_url) THEN Raise(<<"site_url", " richiesto">>, <<>>)
             ELSE LET site_info == sites_get(site_url, ext)
                  IN  IF site_info.raised THEN site_info
                      ELSE Return([site_details |-> site_info.value], site_info.calls)
    ELSE Raise(<<"Tool sconosciuto: ", tool_name>>, <<>>)

handle_tools_call(params, ext) ==
    LET r == tool_body(params, ext)
    IN  IF r.raised
        THEN Raise(<<"Errore nell'esecuzione del tool: ">> \o r.message, r.calls)
        ELSE Return([content |-> << [type |-> "text", text |-> Dumps(r.value)] >>],
                    r.calls)

process_message(message, ext) ==
    LET method == Get(message.method)
        params == IF message.params.kind = "absent" THEN EmptyParams ELSE message.params
        msg_id == Get(message.id)
        r == IF method = "initialize" THEN handle_initialize(params)
             ELSE IF method = "tools/list" THEN handle_tools_list(params)
             ELSE IF method = "tools/call" THEN handle_tools_call(params, ext)
             ELSE Raise(<<"Metodo non supportato: ", method>>, <<>>)
    IN  IF r.raised
        THEN Return(create_mcp_message("error", msg_id, NoneO,
                                       [code |-> -32000, message |-> r.message]),
                    r.calls)
        ELSE Return(create_mcp_message("result", msg_id, r.value, NoneO), r.calls)

\* variant: a message is only dispatched while a session is registered
sse_message_handler_needs_session(message, ext) ==
    LET r == process_message(message, ext)
    IN  IF DOMAIN active_connections = {}
        THEN [status |-> 200,
              body |-> [jsonrpc |-> "2.0", id |-> Get(message.id),
                        error |-> [code |-> -32000, message |-> <<"no session">>]],
              calls |-> <<>>]
        ELSE [status |-> 200, body |-> r.value, calls |-> r.calls]

\* POST /sse
sse_message_handler(message, ext) ==
    LET r == process_message(message, ext)
    IN  IF r.raised
        THEN [status |-> 200,
              body |-> [jsonrpc |-> "2.0", id |-> Get(message.id),
                        error |-> [code |-> -32000, message |-> r.message]],
              calls |-> r.calls]
        ELSE [status |-> 200, body |-> r.value, calls |-> r.calls]

-----------------------------------------------------------------------------
(* The legacy REST surface and the read-only endpoints *)

\* the body of the try block of handle_mcp_request, lines 324-369.  The
\* HTTPException of line 367 is an Exception like the others here; its str()
\* is "<status_code>: <detail>".
mcp_body(request, ext) ==
    IF gsc_service = NoneS
    THEN ServiceUnavailable
    ELSE IF request.method = "list_properties"
    THEN LET sites == sites_list(ext)
         IN  IF sites.raised THEN sites
             ELSE Return([properties |-> SiteUrlsOf(sites.value)], sites.calls)
    ELSE IF request.method = "get_search_analytics"
    THEN IF request.params.kind = "null" THEN Raise(NoneTypeGet, <<>>)
         ELSE
         LET site_url == Get(request.params.site_url)
             start_date == GetDefault(request.params.start_date, "2024-01-01")
             end_date == GetDefault(request.params.end_date, "2024-12-31")
         IN  IF ~Truthy(site_url) THEN Raise(<<"site_url", " richiesto">>, <<>>)
             ELSE LET response == searchanalytics_query(site_url, ext)
                  IN  IF response.raised THEN response
                      ELSE Return([site_url |-> site_url,
                                   period |-> <<start_date, " to ", end_date>>,
                                   analytics |-> RowsOf(response.value)],
                                  response.calls)
    ELSE IF request.method = "get_site_details"
    THEN IF request.params.kind = "null" THEN Raise(NoneTypeGet, <<>>)
         ELSE
         LET site_url == Get(request.params.site_url)
         IN  IF ~Truthy(site_url) THEN Raise(<<"site_url", " richiesto">>, <<>>)
             ELSE LET site_info == sites_get(site_url, ext)
                  IN  IF site_info.raised THEN site_info
                      ELSE Return([site_details |-> site_info.value], site_info.calls)
    ELSE Raise(<<"400: ", "Metodo sconosciuto: ", request.method>>, <<>>)

\* variant: the result is wrapped as tools/call wraps it
handle_mcp_request_wrapped(request, ext) ==
    LET r == mcp_body(request, ext)
    IN  IF r.raised
        THEN [status |-> 200, body |-> [result |-> NoneO, error |-> Str(r.message)],
              calls |-> r.calls]
        ELSE [status |-> 200,
              body |-> [result |-> [content |-> << [type |-> "text",
                                                    text |-> Dumps(r.value)] >>],
                        error |-> NoneO],
              calls |-> r.calls]

\* variant: the exceptions of the body are not caught
handle_mcp_request_uncaught(request, ext) ==
    LET r == mcp_body(request, ext)
    IN  IF r.raised
        THEN [status |-> 500, body |-> [detail |-> "Internal Server Error"],
              calls |-> r.calls]
        ELSE [status |-> 200, body |-> [result |-> r.value, error |-> NoneO],
              calls |-> r.calls]

\* POST /mcp: every exception of the body, the HTTPException included, is
\* caught by the except clause of line 371 and returned as MCPResponse(error=...)
handle_mcp_request(request, ext) ==
    LET r == mcp_body(request, ext)
    IN  IF r.raised
        THEN [status |-> 200, body |-> [result |-> NoneO, error |-> Str(r.message)],
              calls |-> r.calls]
        ELSE [status |-> 200, body |-> [result |-> r.value, error |-> NoneO],
              calls |-> r.calls]

\* GET /tools
list_available_tools ==
    [status |-> 200, body |-> [tools |-> tools], calls |-> <<>>]

\* GET /health
health_check ==
    [status |-> 200, body |-> [status |-> "healthy", service |-> "gsc-mcp-server"],
     calls |-> <<>>]

\* GET /
root ==
    [status |-> 200,
     body |-> [message |-> "GSC MCP Server is running",
               status |-> "ok",
               gsc_connected |-> (gsc_service # NoneS),
               gsc_error |-> IF gsc_service = NoneS THEN gsc_error ELSE NoneS,
               mcp_endpoints |-> [sse |-> "/sse", rest |-> "/mcp"]],
     calls |-> <<>>]

-----------------------------------------------------------------------------
(* Request handling as actions *)

Answer(endpoint, message, r) ==
    /\ lastRequest' = [endpoint |-> endpoint, message |-> message]
    /\ lastResponse' = [status |-> r.status, body |-> r.body]
    /\ lastCalls' = r.calls

\* only tools/call is handed the external client
OutcomesFor(method) ==
    IF method = "tools/call" THEN ExternalOutcomes
    ELSE {[ok |-> FALSE, has |-> FALSE, siteEntry |-> <<>>, rows |-> <<>>]}

PostSse ==
    \E message \in Messages : \E ext \in OutcomesFor(message.method) :
        /\ Answer("POST /sse", message, sse_message_handler(message, ext))
        /\ UNCHANGED <<cfgVars, sseVars>>

PostMcp ==
    \E request \in MCPRequests, ext \in ExternalOutcomes :
        /\ Answer("POST /mcp", request, handle_mcp_request(request, ext))
        /\ UNCHANGED <<cfgVars, sseVars>>

GetTools ==
    /\ Answer("GET /tools", NoneO, list_available_tools)
    /\ UNCHANGED <<cfgVars, sseVars>>

GetHealth ==
    /\ Answer("GET /health", NoneO, health_check)
    /\ UNCHANGED <<cfgVars, sseVars>>

GetRoot ==
    /\ Answer("GET /", NoneO, root)
    /\ UNCHANGED <<cfgVars, sseVars>>

-----------------------------------------------------------------------------
(* GET /sse: one event_generator per request *)

\* the GET /sse requests of the model, two so that sessions overlap
Sessions == {"a", "b"}

\* str(uuid.uuid4()) as drawn in request s; two calls never draw the same value
uuid4(s) == IF s = "a" THEN "6fa4" ELSE "c21e"
NoUuid == "<unset>"

Heartbeats(s) == Cardinality({i \in 1..Len(frames[s]) : frames[s][i].type = "heartbeat"})

Suspended(s) == pc[s] \in {"connection", "heartbeat", "sleep"}

\* variant: the generator ends without removing its entry
Finally_no_pop(s) ==
    /\ active_connections' = active_connections
    /\ pc' = [pc EXCEPT ![s] = "closed"]

\* the finally clause: active_connections.pop(connection_id, None)
Finally(s) ==
    /\ active_connections' =
           [c \in DOMAIN active_connections \ {connection_id[s]} |-> active_connections[c]]
    /\ pc' = [pc EXCEPT ![s] = "closed"]

\* lines 243-248: the generator starts, registers itself and yields the
\* connection frame
SseConnect(s) ==
    /\ pc[s] = "idle"
    /\ LET u == uuid4(s)
       IN  /\ connection_id' = [connection_id EXCEPT ![s] = u]
           /\ active_connections' =
                  [c \in DOMAIN active_connections \cup {u} |-> TRUE]
           /\ frames' = [frames EXCEPT ![s] = <<[type |-> "connection", id |-> u]>>]
    /\ pc' = [pc EXCEPT ![s] = "connection"]
    /\ UNCHANGED <<cfgVars, rpcVars, disconnected, checks>>

\* the loop is (re)entered after the connection frame or after the sleep
AtLoopHead(s) == pc[s] \in {"connection", "sleep"}

\* line 252: await request.is_disconnected(), made after Len(frames[s]) frames;
\* what it finds is the state of the peer, or it raises
Checked(s, found) ==
    checks' = [checks EXCEPT ![s] = Append(@, [after |-> Len(frames[s]), found |-> found])]

PeerState(s) == IF disconnected[s] THEN "disconnected" ELSE "connected"

\* variant: the heartbeat is yielded whatever the check finds
PassesCheck_always(s) == TRUE

\* line 252-253: `if await request.is_disconnected(): break` does not break
PassesCheck(s) == ~disconnected[s]

\* lines 250-256: still registered, the peer is still there: yield a heartbeat
SseHeartbeat(s) ==
    /\ AtLoopHead(s)
    /\ connection_id[s] \in DOMAIN active_connections
    /\ PassesCheck(s)
    /\ Heartbeats(s) < MaxHeartbeats
    /\ Checked(s, PeerState(s))
    /\ frames' = [frames EXCEPT ![s] = Append(@, [type |-> "heartbeat", id |-> NoUuid])]
    /\ pc' = [pc EXCEPT ![s] = "heartbeat"]
    /\ UNCHANGED <<cfgVars, rpcVars, active_connections, connection_id, disconnected>>

\* lines 250-253, 261-262: the loop condition fails or the disconnect check
\* finds the peer gone: leave the loop, run the finally clause
SseDetectDisconnect(s) ==
    /\ AtLoopHead(s)
    /\ \/ /\ connection_id[s] \notin DOMAIN active_connections
          /\ checks' = checks
       \/ /\ connection_id[s] \in DOMAIN active_connections
          /\ disconnected[s]
          /\ Checked(s, PeerState(s))
    /\ Finally(s)
    /\ UNCHANGED <<cfgVars, rpcVars, connection_id, disconnected, frames>>

\* line 257: the heartbeat was consumed, the generator sleeps
SseSleep(s) ==
    /\ pc[s] = "heartbeat"
    /\ pc' = [pc EXCEPT ![s] = "sleep"]
    /\ UNCHANGED <<cfgVars, rpcVars, active_connections, connection_id, disconnected,
                   frames, checks>>

\* lines 259-262: an exception in the loop (the disconnect check or the
\* serialisation of a frame) is logged, then the finally clause runs
SseError(s) ==
    /\ AtLoopHead(s)
    /\ Checked(s, "raised")
    /\ Finally(s)
    /\ UNCHANGED <<cfgVars, rpcVars, connection_id, disconnected, frames>>

\* lines 261-262: the server closes the generator of a peer that went away
\* while it is suspended; only the finally clause runs
SseTeardown(s) ==
    /\ Suspended(s)
    /\ disconnected[s]
    /\ Finally(s)
    /\ UNCHANGED <<cfgVars, rpcVars, connection_id, disconnected, frames, checks>>

\* the peer goes away
ClientDisconnect(s) ==
    /\ Suspended(s)
    /\ ~disconnected[s]
    /\ disconnected' = [disconnected EXCEPT ![s] = TRUE]
    /\ UNCHANGED <<cfgVars, rpcVars, active_connections, pc, connection_id, frames,
                   checks>>

\* what the scheduler guarantees a session: its generator is resumed
SseStep(s) == SseHeartbeat(s) \/ SseDetectDisconnect(s) \/ SseSleep(s)

-----------------------------------------------------------------------------
(* The process *)

\* lines 37-47 and 223: startup either builds the service or stores str(e)
Init ==
    /\ \/ gsc_service = "service" /\ gsc_error = NoneS
       \/ gsc_service = NoneS /\ gsc_error \in StartupErrors
    /\ tools = MCPServerSSE_init
    /\ active_connections = <<>>
    /\ pc = [s \in Sessions |-> "idle"]
    /\ connection_id = [s \in Sessions |-> NoUuid]
    /\ disconnected = [s \in Sessions |-> FALSE]
    /\ frames = [s \in Sessions |-> <<>>]
    /\ checks = [s \in Sessions |-> <<>>]
    /\ lastRequest = [endpoint |-> "none", message |-> NoneO]
    /\ lastResponse = [status |-> 0, body |-> NoneO]
    /\ lastCalls = <<>>

Next ==
    \/ PostSse
    \/ PostMcp
    \/ GetTools
    \/ GetHealth
    \/ GetRoot
    \/ \E s \in Sessions : SseConnect(s)
    \/ \E s \in Sessions : SseHeartbeat(s)
    \/ \E s \in Sessions : SseDetectDisconnect(s)
    \/ \E s \in Sessions : SseSleep(s)
    \/ \E s \in Sessions : SseError(s)
    \/ \E s \in Sessions : SseTeardown(s)
    \/ \E s \in Sessions : ClientDisconnect(s)

Spec == Init /\ [][Next]_vars

\* the event loop resumes every generator that can run
FairSpec == Spec /\ \A s \in Sessions : WF_vars(SseStep(s))

-----------------------------------------------------------------------------
(* Vocabulary of the properties *)

IsSsePost == lastRequest.endpoint = "POST /sse"
IsMcpPost == lastRequest.endpoint = "POST /mcp"
Req == lastRequest.message
Body == lastResponse.body
HasResult == "result" \in DOMAIN Body
HasError == "error" \in DOMAIN Body
KnownMethods == {"initialize", "tools/list", "tools/call"}
KnownTools == {"list_properties", "get_search_analytics", "get_site_details"}
NeedsSiteUrl == {"get_search_analytics", "get_site_details"}

\* a tools/call that names a tool and may carry arguments
IsToolsCall == IsSsePost /\ Req.method = "tools/call" /\ Req.params.kind = "dict"

\* the arguments of the request give no usable site_url
SiteUrlMissing(arguments) == arguments.site_url \in {Absent, ""}

ExternalCallFailed == lastCalls # <<>> /\ ~lastCalls[1].ok
ExternalCallSucceeded == lastCalls # <<>> /\ lastCalls[1].ok

AnyStreaming == \E s \in Sessions : Suspended(s)
AnyClosed == \E s \in Sessions : pc[s] = "closed"

-----------------------------------------------------------------------------
(* C1: every response of the JSON-RPC dispatcher (POST /sse), whatever the
   method, the params and the state of the external service, carries jsonrpc
   "2.0" and exactly one of the keys result and error. *)
C1_ExactlyOneOfResultError ==
    IsSsePost =>
        /\ "jsonrpc" \in DOMAIN Body
        /\ Body.jsonrpc = "2.0"
        /\ HasResult # HasError

\* an error response to a tools/call whose external call failed
C1_Witness ==
    /\ IsToolsCall
    /\ ExternalCallFailed
    /\ HasError
    /\ ~HasResult

(* C2: the response id of the JSON-RPC dispatcher equals the inbound id, and
   is the default "1" when the inbound message has no id. *)
C2_IdEchoedOrDefaulted ==
    IsSsePost =>
        /\ "id" \in DOMAIN Body
        /\ Body.id = IF Req.id = Absent THEN "1" ELSE Req.id

(* C3: a POST /sse message whose method is none of initialize, tools/list,
   tools/call is answered with the error code -32601 and the message "Metodo
   non trovato: <method>"; the code -32000 is used only for failures of the
   three known handlers. *)
C3_UnknownMethodIsMinus32601 ==
    IsSsePost =>
        /\ Req.method \notin KnownMethods =>
               /\ HasError
               /\ Body.error.code = -32601
               /\ Body.error.message = <<"Metodo non trovato: ", Req.method>>
        /\ (HasError /\ Body.error.code = -32000) => Req.method \in KnownMethods

(* C4: a POST /mcp request whose method is none of the three tools is
   answered with HTTP status 400. *)
C4_LegacyUnknownMethodIs400 ==
    (IsMcpPost /\ Req.method \notin KnownTools) => lastResponse.status = 400

\* the cases in which a tools/call fails: service unavailable since startup,
\* required argument missing, external call failing, unknown tool name
ToolCallFails ==
    /\ IsToolsCall
    /\ \/ gsc_service = NoneS
       \/ Req.params.name \notin KnownTools
       \/ Req.params.name \in NeedsSiteUrl /\ SiteUrlMissing(Req.params.arguments)
       \/ ExternalCallFailed

(* C5: for every failing tools/call the response carries result (not error)
   and result.content[0].text parses to {success: false, error: <message>,
   tool: <tool name>}; for an unknown tool the error text is "Tool
   sconosciuto: <name>". *)
C5_ToolFailureIsAResult ==
    ToolCallFails =>
        /\ HasResult
        /\ ~HasError
        /\ LET t == Loads(Body.result.content[1].text)
           IN  /\ DOMAIN t = {"success", "error", "tool"}
               /\ t.success = FALSE
               /\ t.tool = Req.params.name
               /\ Req.params.name \notin KnownTools /\ gsc_service # NoneS
                      => t.error = <<"Tool sconosciuto: ", Req.params.name>>

\* a tools/call of one of the two tools that require site_url, without one
SiteUrlCallWithoutSiteUrl ==
    /\ IsToolsCall
    /\ Req.params.name \in NeedsSiteUrl
    /\ SiteUrlMissing(Req.params.arguments)

(* C6 as claimed: for every tools/call of get_search_analytics or
   get_site_details in which site_url is missing or empty, no external call is
   attempted and the failure reported names the field site_url. *)
C6_MissingSiteUrlIsNamed ==
    SiteUrlCallWithoutSiteUrl =>
        /\ lastCalls = <<>>
        /\ HasError
        /\ Contains(Body.error.message, "site_url")

(* C6 as amended: for every such call no external call is attempted and a
   failure is reported; the failure names site_url when the service was
   initialised at startup and arguments is a mapping or omitted; when the
   service is unavailable the failure carries the stored startup error
   instead, and when arguments is null it carries the text of the attribute
   error instead. *)
C6_MissingSiteUrlAmended ==
    SiteUrlCallWithoutSiteUrl =>
        /\ lastCalls = <<>>
        /\ HasError
        /\ ~HasResult
        /\ (gsc_service # NoneS /\ Req.params.arguments.kind # "null")
               => Contains(Body.error.message, "site_url")
        /\ gsc_service = NoneS
               => /\ Contains(Body.error.message, gsc_error)
                  /\ ~Contains(Body.error.message, "site_url")
        /\ (gsc_service # NoneS /\ Req.params.arguments.kind = "null")
               => Body.error.message =
                      <<"Errore nell'esecuzione del tool: ">> \o NoneTypeGet

\* an available service, an empty site_url: the failure names site_url and
\* nothing was called
C6_Witness ==
    /\ SiteUrlCallWithoutSiteUrl
    /\ gsc_service # NoneS
    /\ Req.params.arguments.site_url = ""
    /\ HasError
    /\ Contains(Body.error.message, "site_url")
    /\ lastCalls = <<>>

(* C7: for every tools/call with a known tool name, the required arguments
   present, an available service and a succeeding external call, result.content
   is the one-element array [{type: "text", text: T}], T being the JSON
   serialization of the tool result, and the parsed object contains success:
   true. *)
C7_ToolSuccessCarriesSuccessTrue ==
    (IsToolsCall /\ Req.params.name \in KnownTools /\ ExternalCallSucceeded) =>
        /\ HasResult
        /\ Len(Body.result.content) = 1
        /\ Body.result.content[1].type = "text"
        /\ LET t == Loads(Body.result.content[1].text)
           IN  /\ "success" \in DOMAIN t
               /\ t.success = TRUE

\* what holds of the last exchange when startup failed.  A tool invocation is
\* a tools/call whose params is a mapping or omitted, so that it can carry a
\* name and arguments.
C8_Unavailable ==
    gsc_service = NoneS =>
        /\ lastCalls = <<>>
        /\ (IsSsePost /\ Req.method = "tools/call" /\ Req.params.kind # "null") =>
               /\ HasError
               /\ ~HasResult
               /\ Contains(Body.error.message, gsc_error)
        /\ IsMcpPost =>
               /\ Body.result = NoneO
               /\ Body.error # NoneO
               /\ Contains(Body.error.str, gsc_error)
        /\ (IsSsePost /\ Req.method \in {"initialize", "tools/list"}) =>
               /\ HasResult
               /\ ~HasError

(* C8: in a process whose startup authentication failed, after any sequence
   of requests, every tool invocation (tools/call and POST /mcp, any tool name
   and arguments) reports a failure that contains the error message stored at
   startup and makes no external call; the unavailable state never reverts;
   initialize and tools/list still return a result. *)
C8_StartupFailureIsPermanent ==
    /\ []C8_Unavailable
    /\ [][gsc_service = NoneS => (gsc_service' = NoneS /\ gsc_error' = gsc_error)]_vars

\* startup failed, sessions have come and gone, and a tools/call with all its
\* arguments is refused with the stored error
C8_Witness ==
    /\ gsc_service = NoneS
    /\ AnyClosed
    /\ IsToolsCall
    /\ Req.params.name = "get_site_details"
    /\ ~SiteUrlMissing(Req.params.arguments)
    /\ HasError
    /\ Contains(Body.error.message, gsc_error)
    /\ lastCalls = <<>>

Registered(s) == connection_id[s] \in DOMAIN active_connections

(* C9: once sessions have connected, the disconnect of a session's peer
   eventually (the session being scheduled) closes the session and removes
   its id from the registry; when every session that connected has closed,
   the registry has as many entries as before those connections, which is
   none. *)
C9_DisconnectClosesAndUnregisters ==
    /\ \A s \in Sessions :
           (Suspended(s) /\ disconnected[s]) ~> (pc[s] = "closed" /\ ~Registered(s))
    /\ []((\A s \in Sessions : pc[s] \in {"idle", "closed"})
              => Cardinality(DOMAIN active_connections) = 0)

\* both sessions connected, sent heartbeats, lost their peer and closed; the
\* registry is empty again
C9_Witness ==
    /\ \A s \in Sessions :
           /\ pc[s] = "closed"
           /\ disconnected[s]
           /\ Heartbeats(s) >= 1
           /\ ~Registered(s)
    /\ DOMAIN active_connections = {}

ToolNamesOf(catalogue) == [i \in 1..Len(catalogue) |-> catalogue[i].name]

(* C10: whatever requests are interleaved, every tools/list response carries
   the same catalogue, the one built at startup, which lists exactly
   list_properties, get_search_analytics, get_site_details in that order and
   is the catalogue GET /tools serves. *)
C10_CatalogueIsFixed ==
    /\ (IsSsePost /\ Req.method = "tools/list") =>
           /\ HasResult
           /\ Body.result.tools = MCPServerSSE_init
           /\ ToolNamesOf(Body.result.tools) =
                  <<"list_properties", "get_search_analytics", "get_site_details">>
           /\ Body.result.tools = list_available_tools.body.tools
    /\ lastRequest.endpoint = "GET /tools" =>
           /\ Body.tools = MCPServerSSE_init
           /\ [tools |-> Body.tools] = handle_tools_list(EmptyParams).value

\* a tools/list answered while one session is streaming and another has closed
C10_Witness ==
    /\ IsSsePost
    /\ Req.method = "tools/list"
    /\ HasResult
    /\ Len(Body.result.tools) = 3
    /\ AnyStreaming
    /\ AnyClosed

(* C11: when the external service was unavailable at startup, GET /health
   reports a degraded status, not the healthy status of a process whose
   service initialised. *)
C11_HealthDegradedWhenUnavailable ==
    (lastRequest.endpoint = "GET /health" /\ gsc_service = NoneS)
        => Body.status # "healthy"

\* the external answers under which the handler gives the observed exchange
ObservedOutcomes ==
    {ext \in ExternalOutcomes :
        LET r == sse_message_handler(Req, ext)
        IN  r.body = Body /\ r.calls = lastCalls}

RECURSIVE SumOf(_, _)
SumOf(rows, field) ==
    IF rows = <<>> THEN 0
    ELSE (IF field = "clicks" THEN Head(rows).clicks ELSE Head(rows).impressions)
         + SumOf(Tail(rows), field)

FirstRows(rows, k) == SubSeq(rows, 1, IF Len(rows) < k THEN Len(rows) ELSE k)

(* C12: for get_search_analytics with site_url present and an external
   response of n rows, the tool result has total_queries = n, total_clicks
   and total_impressions the sums over all rows, and top_queries the first
   min(n, 10) rows in the order of the external response. *)
C12_AnalyticsTotals ==
    (IsToolsCall /\ Req.params.name = "get_search_analytics" /\ ExternalCallSucceeded) =>
        \A ext \in ObservedOutcomes :
            LET rows == IF ext.has THEN ext.rows ELSE <<>>
                t == Loads(Body.result.content[1].text)
            IN  /\ {"total_queries", "total_clicks", "total_impressions", "top_queries"}
                       \subseteq DOMAIN t
                /\ t.total_queries = Len(rows)
                /\ t.total_clicks = SumOf(rows, "clicks")
                /\ t.total_impressions = SumOf(rows, "impressions")
                /\ t.top_queries = FirstRows(rows, 10)

(* C13: on every SSE connect the first frame is a connect event carrying
   {type: "connection", status: "connected"}, followed by exactly one
   server-info frame and exactly one tool-list frame, all three before any
   heartbeat; none of the three is emitted again later. *)
C13_ConnectPreamble ==
    \A s \in Sessions :
        LET f == frames[s]
            Count(type) == Cardinality({i \in 1..Len(f) : f[i].type = type})
        IN  /\ f # <<>> =>
                   /\ f[1].type = "connection"
                   /\ "status" \in DOMAIN f[1]
                   /\ f[1].status = "connected"
            /\ \A i \in 1..Len(f) :
                   f[i].type = "heartbeat" =>
                       /\ i > 3
                       /\ f[2].type = "server-info"
                       /\ f[3].type = "tools"
            /\ Count("connection") <= 1
            /\ Count("server-info") <= 1
            /\ Count("tools") <= 1

LastCheck(s) == checks[s][Len(checks[s])]

\* every heartbeat among the frames of s follows a check, made since the frame
\* before it, that found the peer connected
HeartbeatsFollowChecks(s) ==
    \A i \in 1..Len(frames[s]) :
        frames[s][i].type = "heartbeat" =>
            \E k \in 1..Len(checks[s]) :
                /\ checks[s][k].after = i - 1
                /\ checks[s][k].found = "connected"

\* a check that found the peer gone is the last thing the session did: it is
\* closed and has no frame beyond those sent before that check
DisconnectedCheckCloses(s) ==
    \A k \in 1..Len(checks[s]) :
        checks[s][k].found = "disconnected" =>
            /\ pc[s] = "closed"
            /\ k = Len(checks[s])
            /\ Len(frames[s]) = checks[s][k].after

(* C14: in a streaming session every heartbeat frame is preceded, since the
   previous frame, by a disconnect check that found the peer still connected;
   once a check finds the peer disconnected the session is closed, and a
   closed session stays closed and emits no further frame of any type. *)
C14_HeartbeatOnlyAfterPassedCheck ==
    /\ [](\A s \in Sessions : HeartbeatsFollowChecks(s) /\ DisconnectedCheckCloses(s))
    /\ [][\A s \in Sessions :
              pc[s] = "closed" => (pc'[s] = "closed" /\ frames'[s] = frames[s])]_vars

\* a session that sent a heartbeat after a passed check, then found its peer
\* gone at the next check and closed
C14_Witness ==
    \E s \in Sessions :
        /\ pc[s] = "closed"
        /\ Heartbeats(s) >= 1
        /\ Len(checks[s]) >= 2
        /\ checks[s][1].found = "connected"
        /\ LastCheck(s).found = "disconnected"
        /\ frames[s][Len(frames[s])].type = "heartbeat"

(* C15: when an error occurs while a session is streaming (the disconnect
   check raises), the session emits exactly one {type: "error", message}
   frame and then closes: it is closed, its id is out of the registry, and the
   error frame is its last frame. *)
C15_ErrorFrameThenClose ==
    \A s \in Sessions :
        (checks[s] # <<>> /\ LastCheck(s).found = "raised") =>
            LET f == frames[s]
            IN  /\ pc[s] = "closed"
                /\ ~Registered(s)
                /\ Cardinality({i \in 1..Len(f) : f[i].type = "error"}) = 1
                /\ f[Len(f)].type = "error"
                /\ "message" \in DOMAIN f[Len(f)]

\* the registry gains an id only as the id a session draws when it starts, and
\* loses an id only as the id of a session that ends
RegistryWrittenByOwner ==
    /\ \A c \in DOMAIN active_connections' \ DOMAIN active_connections :
           \E s \in Sessions :
               /\ pc[s] = "idle"
               /\ pc'[s] = "connection"
               /\ connection_id'[s] = c
               /\ DOMAIN active_connections' = DOMAIN active_connections \cup {c}
    /\ \A c \in DOMAIN active_connections \ DOMAIN active_connections' :
           \E s \in Sessions :
               /\ connection_id[s] = c
               /\ Suspended(s)
               /\ pc'[s] = "closed"
               /\ DOMAIN active_connections' = DOMAIN active_connections \ {c}

\* a step that handles a request
RequestHandled == rpcVars' # rpcVars

\* the exchange held in the state is what the handler gives in this state, with
\* the sessions as they are now
ExchangeReproducible ==
    /\ IsSsePost => ObservedOutcomes # {}
    /\ IsMcpPost =>
           \E ext \in ExternalOutcomes :
               LET r == handle_mcp_request(Req, ext)
               IN  r.body = Body /\ r.status = lastResponse.status /\ r.calls = lastCalls

(* C16: under any interleaving of sessions and requests the registry is
   written only by the owning session (it inserts its own id when it connects
   and deletes its own id when it closes), handling a request on any endpoint
   leaves the registry unchanged, and the response to a POSTed message is the
   one the handler gives whether no, one or two sessions are open. *)
C16_RegistryOwnedBySessions ==
    /\ [][RegistryWrittenByOwner]_vars
    /\ [][RequestHandled => active_connections' = active_connections]_vars
    /\ []ExchangeReproducible

\* a tools/call answered with a result, in a state where both sessions are
\* open and registered
C16_Witness ==
    /\ IsToolsCall
    /\ HasResult
    /\ ExternalCallSucceeded
    /\ \A s \in Sessions : Suspended(s) /\ Registered(s)
    /\ Cardinality(DOMAIN active_connections) = 2

(* C17: in every reachable state the registry holds exactly the ids of the
   sessions whose stream has started and not yet ended (by detected
   disconnect, error or teardown), and sessions open together hold distinct
   ids. *)
C17_RegistryIsTheOpenSessions ==
    /\ DOMAIN active_connections = {connection_id[s] : s \in {t \in Sessions : Suspended(t)}}
    /\ \A s, t \in Sessions :
           (Suspended(s) /\ Suspended(t) /\ s # t) => connection_id[s] # connection_id[t]
    /\ \A s \in Sessions : pc[s] \in {"idle", "closed"} => ~Registered(s)

\* one session ended by an error while the other still streams: the registry
\* holds the id of the second only
C17_Witness ==
    \E s, t \in Sessions :
        /\ pc[s] = "closed"
        /\ checks[s] # <<>>
        /\ LastCheck(s).found = "raised"
        /\ pc[t] = "sleep"
        /\ DOMAIN active_connections = {connection_id[t]}

\* the external answers under which POST /mcp gives the observed exchange
ObservedLegacyOutcomes ==
    {ext \in ExternalOutcomes :
        LET r == handle_mcp_request(Req, ext)
        IN  r.body = Body /\ r.calls = lastCalls}

\* the same tool and arguments put to the other surface
AsLegacy(message) == [method |-> message.params.name, params |-> message.params.arguments]
AsToolsCall(request) ==
    [id |-> "7", method |-> "tools/call",
     params |-> [kind |-> "dict", name |-> request.method, arguments |-> request.params]]

\* a JSON-RPC response j and a legacy response l report the same thing
SurfacesAgree(j, l) ==
    /\ ("error" \in DOMAIN j.body) <=> (l.body.error # NoneO)
    /\ "result" \in DOMAIN j.body =>
           /\ Len(j.body.result.content) = 1
           /\ Loads(j.body.result.content[1].text) = l.body.result
    /\ j.calls = l.calls

(* C18: for each of the three tools, the same arguments (a mapping, or null)
   and the same external outcome, the two surfaces agree: one reports a
   failure exactly when the other does, and when tools/call succeeds the
   object parsed from result.content[0].text equals the result field of POST
   /mcp for that tool name as method and those arguments as params. *)
C18_SurfacesAgree ==
    /\ (IsToolsCall /\ Req.params.name \in KnownTools
            /\ Req.params.arguments.kind \in {"dict", "null"}) =>
           \A ext \in ObservedOutcomes :
               SurfacesAgree([body |-> Body, calls |-> lastCalls],
                             handle_mcp_request(AsLegacy(Req), ext))
    /\ (IsMcpPost /\ Req.method \in KnownTools) =>
           \A ext \in ObservedLegacyOutcomes :
               SurfacesAgree(sse_message_handler(AsToolsCall(Req), ext),
                             [body |-> Body, calls |-> lastCalls])

\* a get_search_analytics tools/call that succeeded, and whose parsed text is
\* the result of POST /mcp
C18_Witness ==
    /\ IsToolsCall
    /\ Req.params.name = "get_search_analytics"
    /\ ExternalCallSucceeded
    /\ HasResult
    /\ \E ext \in ObservedOutcomes :
           /\ ext.has
           /\ handle_mcp_request(AsLegacy(Req), ext).body.result
                  = Loads(Body.result.content[1].text)
           /\ Len(Loads(Body.result.content[1].text).analytics) = 2

(* C19: a POST /mcp request whose params is null: for get_search_analytics
   and get_site_details the response is the envelope with error a string and
   result null, and no external call is attempted; for list_properties the
   null params cause no failure (a failure is the unavailable service or the
   failed external call) and the properties list is returned when the
   external call succeeds. *)
C19_LegacyNullParams ==
    (IsMcpPost /\ Req.params.kind = "null") =>
        /\ DOMAIN Body = {"result", "error"}
        /\ Req.method \in NeedsSiteUrl =>
               /\ Body.error # NoneO
               /\ DOMAIN Body.error = {"str"}
               /\ Body.result = NoneO
               /\ lastCalls = <<>>
        /\ Req.method = "list_properties" =>
               /\ Body.error # NoneO => (gsc_service = NoneS \/ ExternalCallFailed)
               /\ ExternalCallSucceeded =>
                      /\ Body.error = NoneO
                      /\ \A ext \in ObservedLegacyOutcomes :
                             Body.result =
                                 [properties |-> SiteUrlsOf([has |-> ext.has,
                                                             siteEntry |-> ext.siteEntry])]

\* with the service available, get_search_analytics with null params fails on
\* the attribute error before any call
C19_Witness ==
    /\ IsMcpPost
    /\ Req.params.kind = "null"
    /\ Req.method = "get_search_analytics"
    /\ gsc_service # NoneS
    /\ Body.error = Str(NoneTypeGet)
    /\ Body.result = NoneO
    /\ lastCalls = <<>>

====
